---------------------------- MODULE Spec2Model ----------------------------
(***************************************************************************)
(* A model of the pegnet miner: the opr package (src/opr/opr.go), with the *)
(* hash engine's one-time initialisation, record validation against the    *)
(* process-wide chain identity, record construction and the cancellable    *)
(* mining loop, and the TCP server of networkMiner                         *)
(* (src/networkMiner/tcpServer.go).                                        *)
(*                                                                         *)
(* Each concern has its own specification over the shared variables:       *)
(*   SpecMine      Mine, ComputeDifficulty and a caller sending on         *)
(*                 StopMining                                              *)
(*   SpecMineLive  the same on a record made by NewOpr, with a loop that   *)
(*                 keeps being scheduled                                   *)
(*   SpecDifficulty  repeated direct calls of ComputeDifficulty            *)
(*   SpecNonce     the nonce encoder of Mine as a pure function            *)
(*   SpecLX        concurrent InitLX calls and the operations that hash    *)
(*   SpecValidate  one goroutine calling Validate again and again          *)
(*   SpecValidateRace  several goroutines in Validate at the same time     *)
(*   SpecTCP       Listen, the clients' read loops and their peers         *)
(*   SpecNewOpr    one call of NewOpr and the sender on the alert channel  *)
(***************************************************************************)
EXTENDS Integers, Sequences, FiniteSets, TLC

VARIABLES
    \* ---- hash engine (opr.go:53-64)
    lxState,        \* LX: "uninit", "initializing" or "ready"
    lxTable,        \* LX.Hash on OPRHash ++ nonce: per nonce, the index of its value
    \* ---- the record being mined (opr.go:25-44)
    OPRHash,        \* opr.OPRHash
    Difficulty,     \* opr.Difficulty, a uint64
    ExtID0,         \* opr.Entry.ExtIDs[0], the best nonce
    StopMining,     \* opr.StopMining: the buffered values of the channel
    oprBody,        \* Entry.Content and the fields that go into the record
    oprSpare,       \* the bytes of OPRHash's array past its length (cap - len)
    \* ---- Mine's frame (opr.go:152-186)
    minePc,         \* "idle", "select", "compute", "update", "exit", "done", "panic"
    i,              \* loop counter
    nonce,          \* local nonce slice
    diff,           \* local diff
    statsLog,       \* the calls of common.Stats.Update, in order
    \* ---- the caller that cancels the run
    sendPc,         \* "idle" or "sending" (at the statement opr.StopMining <- 0)
    sent,           \* number of sends that have completed
    \* ---- history of the run
    hashCalls,      \* ComputeDifficulty calls made by the run
    callsAfterStop, \* ComputeDifficulty calls begun after a send had completed
    runStart,       \* the record as it was when the run, or the first call, began
    cdResults,      \* what the direct calls of ComputeDifficulty returned, in order
    \* ---- the process
    crashed,        \* the process has panicked
    \* ---- the nonce encoder of Mine, on its own
    encCounter,     \* the counter i handed to the encoder
    encOut,         \* the nonce slice
    encPc,          \* "start" or "done"
    \* ---- lxInitializer, a sync.Once (opr.go:55), and the goroutines using LX
    onceDone,       \* the Once's done flag, 0 or 1
    onceMutex,      \* the goroutine holding the Once's mutex, or 0
    lxInitRuns,     \* the number of times LX.Init has been entered
    callPc,         \* per goroutine: where it is in its call
    callOp,         \* per goroutine: the operation it is in, or "none"
    calls,          \* per goroutine: the calls it has started
    \* ---- the global OPRChainID (opr.go:67), a Go string: two words
    chainPtr,       \* its data word: the string it points at, or "nil"
    chainLen,       \* its length word
    chainWrites,    \* the number of assignments made to it (opr.go:92)
    \* ---- the goroutines in Validate (opr.go:83-117)
    valPc,          \* per goroutine: where it is in Validate
    valCfg,         \* per goroutine: the config c of its call
    valRec,         \* per goroutine: the record opr of its call
    valNew,         \* per goroutine: the identity it computed at opr.go:92
    valResult,      \* per goroutine: what its call returned
    \* ---- TCPServer.Listen (tcpServer.go:102-125)
    srvPc,          \* "idle", "accepting" or "fatal"
    accepts,        \* the number of times listener.Accept has returned
    \* ---- the TCPClient made by the k-th accept and its peer
    conn,           \* c.conn: "none", "nil", "open" or "closed"
    sentLog,        \* what the peer has written, in order
    wire,           \* what the peer has written and the decoder has not read
    peerClosed,     \* the peer has closed its end
    loopPc,         \* where the client's listen goroutine is
    loopErr,        \* the err of that goroutine's last Decode
    running,        \* the message-received callbacks of the client now running
    events,         \* the callbacks and the socket close of the client, in order
    \* ---- one call of NewOpr (opr.go:271-349) and the alert channel
    newOprPc,       \* "idle", "config", "receive", "record", "returned", "error", "panic"
    newOprCfg,      \* the config c
    minerNumber,    \* the parameter minerNumber
    newOprEnv,      \* whether the wallet lookup and the debug address conversion succeed
    alert,          \* the values offered on the alert channel and not yet received
    winners,        \* the value received from alert: the winners' entry hashes
    WinPreviousOPR, \* opr.WinPreviousOPR, an array of ten strings
    newOprResult,   \* what NewOpr returned: a record or nil, and the error
    newOprRecord,   \* the fields of the record NewOpr is building
    newOprDone      \* what the call has done outside: "fetch", "receive", "poll", "hash"

mineVars == <<lxTable, OPRHash, Difficulty, ExtID0, StopMining, minePc,
              i, nonce, diff, statsLog, sendPc, sent, hashCalls, callsAfterStop,
              oprBody, oprSpare, runStart, cdResults>>

encVars == <<encCounter, encOut, encPc>>

onceVars == <<onceDone, onceMutex, lxInitRuns, callPc, callOp, calls>>

valVars == <<chainPtr, chainLen, chainWrites, valPc, valCfg, valRec, valNew,
             valResult>>

tcpVars == <<srvPc, accepts, conn, sentLog, wire, peerClosed, loopPc, loopErr,
             running, events>>

newOprVars == <<newOprPc, newOprCfg, minerNumber, newOprEnv, alert, winners,
                WinPreviousOPR, newOprResult, newOprRecord, newOprDone>>

\* What the steps of Mine and of its canceller leave alone.
outsideMine == <<encVars, onceVars, valVars, tcpVars, newOprVars>>

\* What the nonce encoder on its own leaves alone.
outsideEnc == <<lxState, crashed, mineVars, onceVars, valVars, tcpVars,
                newOprVars>>

\* What the goroutines calling InitLX and the hashing operations leave alone.
outsideLX == <<mineVars, encVars, valVars, tcpVars, newOprVars>>

\* What the goroutines in Validate leave alone.
outsideVal == <<lxState, mineVars, encVars, onceVars, tcpVars, newOprVars>>

\* What the server, its clients and their peers leave alone.
outsideTCP == <<lxState, mineVars, encVars, onceVars, valVars, newOprVars>>

\* What a call of NewOpr and the sender on alert leave alone.
outsideNewOpr == <<mineVars, encVars, onceVars, valVars, tcpVars>>

vars == <<lxState, crashed, mineVars, encVars, onceVars, valVars, tcpVars,
          newOprVars>>

--------------------------------------------------------------------------
(* Bounds of the model *)

\* Mine's loop is unbounded; the model stops it after MaxIter iterations.
MaxIter == 4

\* The number of cancellation values the caller tries to send.
MaxSends == 2

\* The nonce encoder is applied to every counter up to MaxCounter, and to a
\* few larger ones around the next byte boundaries.
MaxCounter == 300

\* The goroutines that call InitLX and the hashing operations, and the
\* number of calls each of them makes.
NumCallers == 2
MaxCalls == 2

\* The goroutines that call Validate concurrently.
NumValidators == 2

\* The number of direct calls of ComputeDifficulty on one record.
MaxDiffCalls == 2

\* Listen accepts for ever; the model follows its first MaxAccepts accepts,
\* and each peer writes at most MaxMsgs items.
MaxAccepts == 2
MaxMsgs == 2

\* The largest number of winners a value on the alert channel carries.
MaxWinners == 11

--------------------------------------------------------------------------
(* Program constants *)

\* make(chan int, 1)
ChanCap == 1

\* LX.Init(0xfafaececfafaecec, 25, 256, 5): the hash size in bits
HashSize == 256

\* WinPreviousOPR [10]string
WinnerSlots == 10

HashBytes == HashSize \div 8

Byte == 0..255

--------------------------------------------------------------------------
(* uint64 values, kept as their eight base-256 digits, most significant    *)
(* first: TLC's integers are 32 bits wide.                                 *)

U64Zero == <<0, 0, 0, 0, 0, 0, 0, 0>>

\* a < b on uint64
U64Less(a, b) ==
    \E k \in 1..8 : a[k] < b[k] /\ \A j \in 1..(k - 1) : a[j] = b[j]

U64LessEq(a, b) == a = b \/ U64Less(a, b)

\* (d << 8) + b on uint64, b a byte: the top digit is shifted out, the low
\* digit of d << 8 is zero, so the sum carries nothing.
U64Shl8Add(d, b) == SubSeq(d, 2, 8) \o <<b>>

\* A fold that takes h[0] as the least significant byte.
DifficultyLoopMutLittleEndian(h, k, d) ==
    <<h[8], h[7], h[6], h[5], h[4], h[3], h[2], h[1]>>

\* for i := uint64(0); i < 8; i++ { difficulty = difficulty<<8 + uint64(h[i]) }
RECURSIVE DifficultyLoop(_, _, _)
DifficultyLoop(h, k, d) ==
    IF k >= 8 THEN d ELSE DifficultyLoop(h, k + 1, U64Shl8Add(d, h[k + 1]))


\* nonce = nonce[:0]; for j := i; j > 0; j = j >> 8 { nonce = append(nonce, byte(j)) }
RECURSIVE NonceLoop(_, _)
NonceLoop(j, n) ==
    IF j > 0 THEN NonceLoop(j \div 256, Append(n, j % 256)) ELSE n

\* An encoder that puts each new byte in front of the ones it has.
NonceBytesMutPrepend(c) ==
    LET RECURSIVE Pre(_, _)
        Pre(j, n) == IF j > 0 THEN Pre(j \div 256, <<j % 256>> \o n) ELSE n
    IN  Pre(c, <<>>)

NonceBytes(c) == NonceLoop(c, <<>>)

\* if diff > opr.Difficulty
BetterMutNotEqual(d, best) == d # best

\* A comparison that also takes a difficulty equal to the best.
BetterMutOrEqual(d, best) == ~(\E k \in 1..8 : d[k] < best[k] /\ \A j \in 1..(k - 1) : d[j] = best[j])

Better(d, best) == U64Less(best, d)

--------------------------------------------------------------------------
(* The inputs of a mining run *)

RECURSIVE Fill(_, _)
Fill(n, b) == IF n = 0 THEN <<>> ELSE <<b>> \o Fill(n - 1, b)

\* Hash values: the eight leading bytes vary, the rest is fixed.
HashLow  == <<0, 0, 0, 0, 0, 0, 0, 2>> \o Fill(HashBytes - 8, 7)
HashMid  == <<1, 0, 0, 0, 0, 0, 0, 0>> \o Fill(HashBytes - 8, 7)
HashHigh == Fill(8, 255) \o Fill(HashBytes - 8, 7)

HashOutputs == <<HashLow, HashMid, HashHigh>>

OPRHashes == {Fill(HashBytes, 5)}

InitialDifficulties == {U64Zero, <<1, 0, 0, 0, 0, 0, 0, 0>>}

\* What OPRHash's array holds past the slice's length: nothing when the
\* capacity equals the length, two bytes when there is room to spare.
SpareBytes == {<<>>, <<9, 9>>}

\* opr.go:36-43 and Entry.Content: the part of a record that is mined.
NoBody == [Content |-> <<>>, OPRChainID |-> <<>>, Dbht |-> 0,
           WinPreviousOPR |-> <<>>, CoinbasePNTAddress |-> "",
           FactomDigitalID |-> <<>>, Assets |-> <<>>]

RecordBodies ==
    {[Content |-> <<123, 125>>, OPRChainID |-> <<"PegNet", "TestNet">>,
      Dbht |-> 7, WinPreviousOPR |-> [k \in 1..10 |-> ""],
      CoinbasePNTAddress |-> "tPNT_ok", FactomDigitalID |-> <<"miner">>,
      Assets |-> <<"PNT", "USD">>]}

\* The record's mutable part and its mined part, as one value.
Snapshot(h, d, e, b) == [OPRHash |-> h, Difficulty |-> d, ExtID0 |-> e, oprBody |-> b]

NoRun == Snapshot(<<>>, U64Zero, <<>>, NoBody)

\* append(opr.OPRHash, nonce...) at opr.go:136, seen from the array of
\* OPRHash: within the capacity the nonce is written past the slice's
\* length, beyond it the bytes go to a new array.
AppendInPlace(spare, n) ==
    IF Len(n) <= Len(spare)
      THEN n \o SubSeq(spare, Len(n) + 1, Len(spare))
      ELSE spare

\* The nonces Mine tries in its first MaxIter iterations.
MineNonces == {NonceBytes(c) : c \in 0..(MaxIter - 1)}

\* LX.Hash(data) for data = oprHash followed by a nonce: the table says, for
\* each nonce, which of the hash values the engine gives.
LXHash(table, oprHash, data) ==
    HashOutputs[table[SubSeq(data, Len(oprHash) + 1, Len(data))]]

\* ComputeDifficulty(nonce): no := append(opr.OPRHash, nonce...);
\* h := LX.Hash(no), folded into a uint64.
ComputeDifficulty(table, oprHash, n) ==
    LET no == oprHash \o n
        h == LXHash(table, oprHash, no)
    IN  DifficultyLoop(h, 0, U64Zero)

--------------------------------------------------------------------------
(* Mine (opr.go:152-186) *)

EncIdle ==
    /\ encCounter = 0
    /\ encOut = <<>>
    /\ encPc = "done"

Callers == 1..NumCallers

\* No goroutine is in a call; the Once is spent exactly when LX is ready.
OnceIdle ==
    /\ onceDone = IF lxState = "ready" THEN 1 ELSE 0
    /\ onceMutex = 0
    /\ lxInitRuns = IF lxState = "ready" THEN 1 ELSE 0
    /\ callPc = [t \in Callers |-> "idle"]
    /\ callOp = [t \in Callers |-> "none"]
    /\ calls = [t \in Callers |-> 0]

Validators == 1..NumValidators

NoConfig == <<>>

NoRecord == [OPRChainID |-> <<>>, CoinbasePNTAddress |-> "", Assets |-> <<>>]

\* A fresh process: the global OPRChainID is the empty string and no
\* goroutine is in Validate.
ValIdle ==
    /\ chainPtr = "nil"
    /\ chainLen = 0
    /\ chainWrites = 0
    /\ valPc = [v \in Validators |-> "idle"]
    /\ valCfg = [v \in Validators |-> NoConfig]
    /\ valRec = [v \in Validators |-> NoRecord]
    /\ valNew = [v \in Validators |-> <<>>]
    /\ valResult = [v \in Validators |-> FALSE]

Clients == 1..MaxAccepts

\* Listen has not been called: no client, no goroutine.
TcpIdle ==
    /\ srvPc = "idle"
    /\ accepts = 0
    /\ conn = [k \in Clients |-> "none"]
    /\ sentLog = [k \in Clients |-> <<>>]
    /\ wire = [k \in Clients |-> <<>>]
    /\ peerClosed = [k \in Clients |-> FALSE]
    /\ loopPc = [k \in Clients |-> "none"]
    /\ loopErr = [k \in Clients |-> "nil"]
    /\ running = [k \in Clients |-> 0]
    /\ events = [k \in Clients |-> <<>>]

NoResult == [opr |-> "none", err |-> "none"]

\* NewOpr has not been called and nothing is offered on alert.
NewOprIdle ==
    /\ newOprPc = "idle"
    /\ newOprCfg = <<>>
    /\ minerNumber = 0
    /\ newOprEnv = [fetch |-> TRUE, debugAddr |-> TRUE]
    /\ alert = <<>>
    /\ winners = <<>>
    /\ WinPreviousOPR = [k \in 1..WinnerSlots |-> <<>>]
    /\ newOprResult = NoResult
    /\ newOprRecord = NoBody
    /\ newOprDone = {}

MineInit ==
    /\ lxState \in {"uninit", "ready"}
    /\ crashed = FALSE
    /\ OPRHash \in OPRHashes
    /\ lxTable \in [MineNonces -> DOMAIN HashOutputs]
    /\ Difficulty \in InitialDifficulties
    /\ ExtID0 = <<>>
    /\ StopMining = <<>>
    /\ minePc = "idle"
    /\ i = 0
    /\ nonce = <<>>
    /\ diff = U64Zero
    /\ statsLog = <<>>
    /\ sendPc = "idle"
    /\ sent = 0
    /\ hashCalls = 0
    /\ callsAfterStop = 0
    /\ oprBody \in RecordBodies
    /\ oprSpare \in SpareBytes
    /\ runStart = NoRun
    /\ cdResults = <<>>
    /\ EncIdle
    /\ OnceIdle
    /\ ValIdle
    /\ TcpIdle
    /\ NewOprIdle

\* opr.go:155-161: nonce := []byte{0, 0}; var i, diff uint64; for i = 0; ...
MineStart ==
    /\ ~crashed
    /\ minePc = "idle"
    /\ minePc' = "select"
    /\ i' = 0
    /\ nonce' = <<0, 0>>
    /\ diff' = U64Zero
    /\ runStart' = Snapshot(OPRHash, Difficulty, ExtID0, oprBody)
    /\ UNCHANGED <<lxState, crashed, lxTable, OPRHash, Difficulty, ExtID0,
                   StopMining, statsLog, sendPc, sent, hashCalls, callsAfterStop,
                   oprBody, oprSpare, cdResults, outsideMine>>

\* A loop that looks at the channel in every other iteration only.
MineSelectMutEveryOther ==
    /\ ~crashed
    /\ minePc = "select"
    /\ IF i % 2 = 0 /\ Len(StopMining) > 0
         THEN /\ StopMining' = Tail(StopMining)
              /\ minePc' = "exit"
         ELSE /\ minePc' = "compute"
              /\ UNCHANGED StopMining
    /\ UNCHANGED <<lxState, crashed, lxTable, OPRHash, Difficulty, ExtID0, i,
                   nonce, diff, statsLog, sendPc, sent, hashCalls, callsAfterStop,
                   oprBody, oprSpare, runStart, cdResults, outsideMine>>

\* opr.go:162-167: select { case <-opr.StopMining: break miningloop; default: }
MineSelect ==
    /\ ~crashed
    /\ minePc = "select"
    /\ IF Len(StopMining) > 0
         THEN /\ StopMining' = Tail(StopMining)
              /\ minePc' = "exit"
         ELSE /\ minePc' = "compute"
              /\ UNCHANGED StopMining
    /\ UNCHANGED <<lxState, crashed, lxTable, OPRHash, Difficulty, ExtID0, i,
                   nonce, diff, statsLog, sendPc, sent, hashCalls, callsAfterStop,
                   oprBody, oprSpare, runStart, cdResults, outsideMine>>

\* A ComputeDifficulty that keeps the appended slice as the record's hash.
MineComputeMutStoresAppend ==
    /\ ~crashed
    /\ minePc = "compute"
    /\ i < MaxIter
    /\ nonce' = NonceBytes(i)
    /\ hashCalls' = hashCalls + 1
    /\ callsAfterStop' = IF sent > 0 THEN callsAfterStop + 1 ELSE callsAfterStop
    /\ oprSpare' = AppendInPlace(oprSpare, nonce')
    /\ OPRHash' = OPRHash \o nonce'
    /\ IF lxState = "ready"
         THEN /\ diff' = ComputeDifficulty(lxTable, OPRHash, nonce')
              /\ minePc' = "update"
              /\ UNCHANGED crashed
         ELSE /\ minePc' = "panic"
              /\ crashed' = TRUE
              /\ UNCHANGED diff
    /\ UNCHANGED <<lxState, lxTable, Difficulty, ExtID0, StopMining, i,
                   statsLog, sendPc, sent, oprBody, runStart, cdResults,
                   outsideMine>>

\* opr.go:168-172 and 135-147: encode the counter, hash, fold. LX.Hash on an
\* engine that is not initialised indexes its empty byte map: the process
\* panics.
MineCompute ==
    /\ ~crashed
    /\ minePc = "compute"
    /\ i < MaxIter
    /\ nonce' = NonceBytes(i)
    /\ hashCalls' = hashCalls + 1
    /\ callsAfterStop' = IF sent > 0 THEN callsAfterStop + 1 ELSE callsAfterStop
    /\ oprSpare' = AppendInPlace(oprSpare, nonce')
    /\ IF lxState = "ready"
         THEN /\ diff' = ComputeDifficulty(lxTable, OPRHash, nonce')
              /\ minePc' = "update"
              /\ UNCHANGED crashed
         ELSE /\ minePc' = "panic"
              /\ crashed' = TRUE
              /\ UNCHANGED diff
    /\ UNCHANGED <<lxState, lxTable, OPRHash, Difficulty, ExtID0, StopMining, i,
                   statsLog, sendPc, sent, oprBody, runStart, cdResults,
                   outsideMine>>

\* A loop that returns as soon as it finds the largest difficulty there is.
MineUpdateMutStopsAtMax ==
    /\ ~crashed
    /\ minePc = "update"
    /\ IF Better(diff, Difficulty)
         THEN /\ Difficulty' = diff
              /\ ExtID0' = nonce
              /\ minePc' = IF diff = <<255, 255, 255, 255, 255, 255, 255, 255>>
                             THEN "exit" ELSE "select"
         ELSE /\ UNCHANGED <<Difficulty, ExtID0>>
              /\ minePc' = "select"
    /\ i' = i + 1
    /\ UNCHANGED <<lxState, crashed, lxTable, OPRHash, StopMining, nonce, diff,
                   statsLog, sendPc, sent, hashCalls, callsAfterStop, oprBody,
                   oprSpare, runStart, cdResults, outsideMine>>

\* opr.go:174-184 and the loop's i++
MineUpdate ==
    /\ ~crashed
    /\ minePc = "update"
    /\ IF Better(diff, Difficulty)
         THEN /\ Difficulty' = diff
              /\ ExtID0' = nonce
              /\ minePc' = "select"
         ELSE /\ UNCHANGED <<Difficulty, ExtID0>>
              /\ minePc' = "select"
    /\ i' = i + 1
    /\ UNCHANGED <<lxState, crashed, lxTable, OPRHash, StopMining, nonce, diff,
                   statsLog, sendPc, sent, hashCalls, callsAfterStop, oprBody,
                   oprSpare, runStart, cdResults, outsideMine>>

\* An exit that counts the poll that ended the loop as an iteration.
MineExitMutCountsLastPoll ==
    /\ ~crashed
    /\ minePc = "exit"
    /\ statsLog' = Append(statsLog, <<i + 1, Difficulty>>)
    /\ minePc' = "done"
    /\ UNCHANGED <<lxState, crashed, lxTable, OPRHash, Difficulty, ExtID0,
                   StopMining, i, nonce, diff, sendPc, sent, hashCalls,
                   callsAfterStop, oprBody, oprSpare, runStart, cdResults,
                   outsideMine>>

\* opr.go:185: common.Stats.Update(i, opr.Difficulty)
MineExit ==
    /\ ~crashed
    /\ minePc = "exit"
    /\ statsLog' = Append(statsLog, <<i, Difficulty>>)
    /\ minePc' = "done"
    /\ UNCHANGED <<lxState, crashed, lxTable, OPRHash, Difficulty, ExtID0,
                   StopMining, i, nonce, diff, sendPc, sent, hashCalls,
                   callsAfterStop, oprBody, oprSpare, runStart, cdResults, outsideMine>>

\* The caller reaches the statement opr.StopMining <- 0.
SendBegin ==
    /\ ~crashed
    /\ sendPc = "idle"
    /\ sent < MaxSends
    /\ sendPc' = "sending"
    /\ UNCHANGED <<lxState, crashed, lxTable, OPRHash, Difficulty, ExtID0,
                   StopMining, minePc, i, nonce, diff, statsLog, sent, hashCalls,
                   callsAfterStop, oprBody, oprSpare, runStart, cdResults, outsideMine>>

\* The send completes once the channel, of capacity 1 (opr.go:275), has room;
\* until then the sender stays parked at the statement.
SendComplete ==
    /\ ~crashed
    /\ sendPc = "sending"
    /\ Len(StopMining) < ChanCap
    /\ StopMining' = Append(StopMining, 0)
    /\ sent' = sent + 1
    /\ sendPc' = "idle"
    /\ UNCHANGED <<lxState, crashed, lxTable, OPRHash, Difficulty, ExtID0, minePc,
                   i, nonce, diff, statsLog, hashCalls, callsAfterStop,
                   oprBody, oprSpare, runStart, cdResults, outsideMine>>

MineNext ==
    \/ MineStart
    \/ MineSelect
    \/ MineCompute
    \/ MineUpdate
    \/ MineExit
    \/ SendBegin
    \/ SendComplete

SpecMine == MineInit /\ [][MineNext]_vars

--------------------------------------------------------------------------
(* Claims about Mine *)

\* C1: during a Mine run the stored best difficulty never decreases: in
\* every step the later Difficulty is at least the earlier one, for every
\* hash function and every initial Difficulty.
C1_DifficultyNeverDecreases == [][U64LessEq(Difficulty, Difficulty')]_vars

\* The run raised a non-zero initial difficulty at its second nonce and went on.
C1_Witness ==
    /\ minePc = "select"
    /\ i >= 2
    /\ ExtID0 = <<1>>
    /\ Difficulty = <<255, 255, 255, 255, 255, 255, 255, 255>>

\* C2: once a cancellation value has been sent on StopMining, the running
\* loop makes at most one more ComputeDifficulty call before it exits.
C2_AtMostOneCallAfterStop == callsAfterStop <= 1

\* The signal arrived between the poll and the hash: one more call, then exit.
C2_Witness == minePc = "done" /\ callsAfterStop = 1 /\ hashCalls >= 2

\* C3: a send on StopMining never blocks: whenever the caller stands at the
\* send statement, the channel has room for the value.
C3_SendNeverBlocks == sendPc = "sending" => Len(StopMining) < ChanCap

\* C4: the run leaves its loop only after a value was sent on StopMining,
\* and an iteration that finds a new best stores it and goes back to the poll.
C4_StopsOnlyOnCancel ==
    /\ [](minePc \in {"exit", "done"} => sent > 0)
    /\ [][(minePc = "update" /\ minePc' # "update" /\ U64Less(Difficulty, diff))
            => (Difficulty' = diff /\ ExtID0' = nonce /\ minePc' = "select")]_vars

\* No value was ever sent, the run found the largest difficulty at its
\* second nonce and is still in its loop two iterations later.
C4_Witness ==
    /\ sent = 0
    /\ sendPc = "idle"
    /\ minePc = "compute"
    /\ i >= 3
    /\ ExtID0 = <<1>>
    /\ Difficulty = <<255, 255, 255, 255, 255, 255, 255, 255>>

\* C16: from its start to its exit a Mine run leaves OPRHash, Entry.Content
\* and every mined field of the record as they were; and a run cancelled
\* before its first iteration leaves Difficulty and the best nonce as they
\* were too.
C16_MineChangesOnlyBest ==
    minePc # "idle" =>
      /\ OPRHash = runStart.OPRHash
      /\ oprBody = runStart.oprBody
      /\ (minePc \in {"exit", "done"} /\ i = 0) =>
           /\ Difficulty = runStart.Difficulty
           /\ ExtID0 = runStart.ExtID0

\* A run of two iterations has ended: it raised the difficulty at its
\* second nonce, and that nonce was written into the spare capacity of
\* OPRHash's array.
C16_Witness ==
    /\ minePc = "done"
    /\ i = 2
    /\ oprSpare = <<1, 9>>
    /\ ExtID0 = <<1>>
    /\ Difficulty # runStart.Difficulty

\* The difficulties of the nonces of the iterations completed so far.
TriedDifficulties ==
    {ComputeDifficulty(lxTable, OPRHash, NonceBytes(k)) : k \in 0..(i - 1)}

\* C20: at every iteration boundary Difficulty is the largest of its value
\* at the start of the run and the difficulties of the nonces tried so far;
\* if it was raised, the best nonce is the earliest tried nonce with that
\* difficulty, and if not, the best nonce is as it was.
C20_StoredPairIsBestSoFar ==
    (lxState = "ready" /\ minePc \in {"select", "exit", "done"}) =>
      LET seen == TriedDifficulties \cup {runStart.Difficulty}
      IN  /\ Difficulty \in seen
          /\ \A d \in seen : U64LessEq(d, Difficulty)
          /\ IF Difficulty # runStart.Difficulty
               THEN \E k \in 0..(i - 1) :
                      /\ ExtID0 = NonceBytes(k)
                      /\ ComputeDifficulty(lxTable, OPRHash, NonceBytes(k)) = Difficulty
                      /\ \A j \in 0..(k - 1) :
                           ComputeDifficulty(lxTable, OPRHash, NonceBytes(j)) # Difficulty
               ELSE ExtID0 = runStart.ExtID0

\* The second and the third nonce both give the largest difficulty; after
\* three iterations the stored nonce is the second.
C20_Witness ==
    /\ minePc = "select"
    /\ i = 3
    /\ lxTable[<<1>>] = 3
    /\ lxTable[<<2>>] = 3
    /\ lxTable[<<>>] = 2
    /\ ExtID0 = <<1>>
    /\ Difficulty = <<255, 255, 255, 255, 255, 255, 255, 255>>

--------------------------------------------------------------------------
(* Mine on a record made by NewOpr, with a loop that keeps being scheduled *)

\* NewOpr has returned the record: LX was ready when GetOPRecord hashed
\* it, and Difficulty has the zero value.
MineLiveInit ==
    /\ MineInit
    /\ lxState = "ready"
    /\ Difficulty = U64Zero

SpecMineLive ==
    /\ MineLiveInit
    /\ [][MineNext]_vars
    /\ WF_vars(MineSelect)
    /\ WF_vars(MineCompute)
    /\ WF_vars(MineUpdate)
    /\ WF_vars(MineExit)

\* C19: once a value has been sent on StopMining while the run is in its
\* loop (within the iterations the model follows), the run ends; when it
\* has ended Stats.Update has been called exactly once, with the number of
\* ComputeDifficulty calls the run made and the record's Difficulty; before
\* that it has not been called.
C19_CancelledRunExitsAndPublishesOnce ==
    /\ (sent > 0 /\ minePc \in {"select", "compute", "update"} /\ i < MaxIter)
          ~> (minePc = "done")
    /\ [](minePc = "done" => statsLog = <<<<hashCalls, Difficulty>>>>)
    /\ [](minePc # "done" => statsLog = <<>>)

\* The run was cancelled after two iterations and published 2 and the
\* largest difficulty.
C19_Witness ==
    /\ minePc = "done"
    /\ sent = 1
    /\ statsLog = <<<<2, <<255, 255, 255, 255, 255, 255, 255, 255>>>>>>
    /\ hashCalls = 2

--------------------------------------------------------------------------
(* ComputeDifficulty (opr.go:135-147), called again and again on one      *)
(* record with one nonce                                                   *)

DifficultyInit ==
    /\ lxState \in {"uninit", "ready"}
    /\ crashed = FALSE
    /\ OPRHash \in OPRHashes
    /\ lxTable \in [MineNonces -> DOMAIN HashOutputs]
    /\ nonce \in MineNonces
    /\ oprSpare \in SpareBytes
    /\ oprBody \in RecordBodies
    /\ Difficulty = U64Zero
    /\ ExtID0 = <<>>
    /\ runStart = Snapshot(OPRHash, Difficulty, ExtID0, oprBody)
    /\ cdResults = <<>>
    /\ StopMining = <<>>
    /\ minePc = "idle"
    /\ i = 0
    /\ diff = U64Zero
    /\ statsLog = <<>>
    /\ sendPc = "idle"
    /\ sent = 0
    /\ hashCalls = 0
    /\ callsAfterStop = 0
    /\ EncIdle
    /\ OnceIdle
    /\ ValIdle
    /\ TcpIdle
    /\ NewOprIdle

\* opr.go:135-147: one call, from entry to return. On an engine that is not
\* initialised LX.Hash panics and nothing is returned.
ComputeDifficultyCall ==
    /\ ~crashed
    /\ hashCalls < MaxDiffCalls
    /\ hashCalls' = hashCalls + 1
    /\ oprSpare' = AppendInPlace(oprSpare, nonce)
    /\ IF lxState = "ready"
         THEN /\ diff' = ComputeDifficulty(lxTable, OPRHash, nonce)
              /\ cdResults' = Append(cdResults, diff')
              /\ UNCHANGED crashed
         ELSE /\ crashed' = TRUE
              /\ UNCHANGED <<diff, cdResults>>
    /\ UNCHANGED <<lxState, lxTable, OPRHash, Difficulty, ExtID0, StopMining,
                   minePc, i, nonce, statsLog, sendPc, sent, callsAfterStop,
                   oprBody, runStart, outsideMine>>

DifficultyNext == ComputeDifficultyCall

SpecDifficulty == DifficultyInit /\ [][DifficultyNext]_vars

\* C11: every value ComputeDifficulty returns is the first eight bytes of
\* the hash of OPRHash followed by the nonce, read big-endian: the digit of
\* weight 256^(8-j) is byte j-1 of the hash, none is lost. Calls with the
\* same OPRHash and nonce return the same value, and OPRHash is what it was
\* before the first call.
C11_DifficultyIsLeadingBytesBigEndian ==
    LET h == LXHash(lxTable, runStart.OPRHash, runStart.OPRHash \o nonce)
    IN  /\ \A k \in 1..Len(cdResults) :
              /\ Len(cdResults[k]) = 8
              /\ \A j \in 1..8 : cdResults[k][j] = h[j]
              /\ cdResults[k] = cdResults[1]
        /\ OPRHash = runStart.OPRHash

\* Two calls returned 2^56; the nonce was written into the spare capacity
\* of OPRHash's array.
C11_Witness ==
    /\ Len(cdResults) = 2
    /\ cdResults[2] = <<1, 0, 0, 0, 0, 0, 0, 0>>
    /\ nonce = <<1>>
    /\ oprSpare = <<1, 9>>

--------------------------------------------------------------------------
(* The nonce encoder of Mine (opr.go:168-171), applied to one counter *)

Counters == (0..MaxCounter) \cup {65535, 65536, 65537, 16777215, 16777216}

\* No record is being mined.
MineIdle ==
    /\ OPRHash = <<>>
    /\ lxTable = <<>>
    /\ Difficulty = U64Zero
    /\ ExtID0 = <<>>
    /\ StopMining = <<>>
    /\ minePc = "idle"
    /\ i = 0
    /\ nonce = <<>>
    /\ diff = U64Zero
    /\ statsLog = <<>>
    /\ sendPc = "idle"
    /\ sent = 0
    /\ hashCalls = 0
    /\ callsAfterStop = 0
    /\ oprBody = NoBody
    /\ oprSpare = <<>>
    /\ runStart = NoRun
    /\ cdResults = <<>>

\* The slice holds the bytes of an earlier iteration when the encoder starts.
NonceInit ==
    /\ encCounter \in Counters
    /\ encOut = <<0, 0>>
    /\ encPc = "start"
    /\ lxState = "ready"
    /\ crashed = FALSE
    /\ MineIdle
    /\ OnceIdle
    /\ ValIdle
    /\ TcpIdle
    /\ NewOprIdle

\* nonce = nonce[:0]; for j := i; j > 0; j = j >> 8 { nonce = append(nonce, byte(j)) }
NonceEncode ==
    /\ encPc = "start"
    /\ encOut' = NonceBytes(encCounter)
    /\ encPc' = "done"
    /\ UNCHANGED <<encCounter, outsideEnc>>

NonceNext == NonceEncode

SpecNonce == NonceInit /\ [][NonceNext]_vars

\* The number a byte string stands for, first byte most significant.
RECURSIVE BigEndianValue(_)
BigEndianValue(n) ==
    IF n = <<>> THEN 0
    ELSE BigEndianValue(SubSeq(n, 1, Len(n) - 1)) * 256 + n[Len(n)]

\* The number a byte string stands for, first byte least significant.
RECURSIVE LittleEndianValue(_)
LittleEndianValue(n) ==
    IF n = <<>> THEN 0 ELSE n[1] + 256 * LittleEndianValue(Tail(n))

\* C10 as stated: the nonce of counter i is the minimal big-endian
\* representation of i: most significant byte first, no leading zero byte.
C10_NonceIsMinimalBigEndian ==
    encPc = "done" =>
        /\ \A k \in 1..Len(encOut) : encOut[k] \in Byte
        /\ BigEndianValue(encOut) = encCounter
        /\ (encOut # <<>> => encOut[1] # 0)

\* C10 as amended: the nonce of counter i is the minimal little-endian
\* representation of i: least significant byte first, no trailing zero byte.
C10_NonceIsMinimalLittleEndian ==
    encPc = "done" =>
        /\ \A k \in 1..Len(encOut) : encOut[k] \in Byte
        /\ LittleEndianValue(encOut) = encCounter
        /\ (encOut # <<>> => encOut[Len(encOut)] # 0)

\* Counter 256 has been encoded: the bytes are 0x00 0x01.
C10_Witness == encPc = "done" /\ encCounter = 256 /\ encOut = <<0, 1>>

--------------------------------------------------------------------------
(* InitLX (opr.go:53-64) and the operations that call LX.Hash *)

\* GetHash (opr.go:128), ComputeDifficulty (opr.go:137), GetOPRecord (opr.go:367)
HashOps == {"GetHash", "ComputeDifficulty", "GetOPRecord"}

\* A fresh process: nothing has called InitLX.
LXInit ==
    /\ lxState = "uninit"
    /\ crashed = FALSE
    /\ OnceIdle
    /\ MineIdle
    /\ EncIdle
    /\ ValIdle
    /\ TcpIdle
    /\ NewOprIdle

\* A goroutine calls InitLX (opr.go:59).
CallInitLX(t) ==
    /\ ~crashed
    /\ callPc[t] = "idle"
    /\ calls[t] < MaxCalls
    /\ calls' = [calls EXCEPT ![t] = @ + 1]
    /\ callOp' = [callOp EXCEPT ![t] = "InitLX"]
    /\ callPc' = [callPc EXCEPT ![t] = "once_load"]
    /\ UNCHANGED <<lxState, crashed, onceDone, onceMutex, lxInitRuns, outsideLX>>

\* A goroutine calls GetHash, ComputeDifficulty or GetOPRecord; none of them
\* calls InitLX, each goes on to LX.Hash (opr.go:128, 137, 367).
CallHashOp(t, op) ==
    /\ ~crashed
    /\ callPc[t] = "idle"
    /\ calls[t] < MaxCalls
    /\ calls' = [calls EXCEPT ![t] = @ + 1]
    /\ callOp' = [callOp EXCEPT ![t] = op]
    /\ callPc' = [callPc EXCEPT ![t] = "hash"]
    /\ UNCHANGED <<lxState, crashed, onceDone, onceMutex, lxInitRuns, outsideLX>>

\* lxInitializer.Do, fast path: if atomic.LoadUint32(&o.done) == 0 { o.doSlow(f) }
OnceLoad(t) ==
    /\ ~crashed
    /\ callPc[t] = "once_load"
    /\ callPc' = [callPc EXCEPT ![t] = IF onceDone = 0 THEN "once_lock" ELSE "returned"]
    /\ UNCHANGED <<lxState, crashed, onceDone, onceMutex, lxInitRuns, callOp, calls,
                   outsideLX>>

\* doSlow: o.m.Lock()
OnceLock(t) ==
    /\ ~crashed
    /\ callPc[t] = "once_lock"
    /\ onceMutex = 0
    /\ onceMutex' = t
    /\ callPc' = [callPc EXCEPT ![t] = "once_check"]
    /\ UNCHANGED <<lxState, crashed, onceDone, lxInitRuns, callOp, calls, outsideLX>>

\* A Once that runs f whenever it gets the lock.
OnceCheckMutNoRecheck(t) ==
    /\ ~crashed
    /\ callPc[t] = "once_check"
    /\ callPc' = [callPc EXCEPT ![t] = "init"]
    /\ UNCHANGED <<lxState, crashed, onceDone, onceMutex, lxInitRuns, callOp, calls,
                   outsideLX>>

\* doSlow: if o.done == 0 { defer atomic.StoreUint32(&o.done, 1); f() };
\* otherwise the deferred o.m.Unlock() runs and Do returns.
OnceCheck(t) ==
    /\ ~crashed
    /\ callPc[t] = "once_check"
    /\ IF onceDone = 0
         THEN /\ callPc' = [callPc EXCEPT ![t] = "init"]
              /\ UNCHANGED onceMutex
         ELSE /\ callPc' = [callPc EXCEPT ![t] = "returned"]
              /\ onceMutex' = 0
    /\ UNCHANGED <<lxState, crashed, onceDone, lxInitRuns, callOp, calls, outsideLX>>

\* opr.go:62: LX.Init(0xfafaececfafaecec, 25, 256, 5) starts filling its tables
InitBegin(t) ==
    /\ ~crashed
    /\ callPc[t] = "init"
    /\ lxState' = "initializing"
    /\ lxInitRuns' = lxInitRuns + 1
    /\ callPc' = [callPc EXCEPT ![t] = "init_run"]
    /\ UNCHANGED <<crashed, onceDone, onceMutex, callOp, calls, outsideLX>>

\* LX.Init returns
InitEnd(t) ==
    /\ ~crashed
    /\ callPc[t] = "init_run"
    /\ lxState' = "ready"
    /\ callPc' = [callPc EXCEPT ![t] = "once_store"]
    /\ UNCHANGED <<crashed, onceDone, onceMutex, lxInitRuns, callOp, calls, outsideLX>>

\* the deferred atomic.StoreUint32(&o.done, 1) and o.m.Unlock()
OnceStore(t) ==
    /\ ~crashed
    /\ callPc[t] = "once_store"
    /\ onceDone' = 1
    /\ onceMutex' = 0
    /\ callPc' = [callPc EXCEPT ![t] = "returned"]
    /\ UNCHANGED <<lxState, crashed, lxInitRuns, callOp, calls, outsideLX>>

\* LX.Hash(...): on a ready engine it returns; on one never initialised it
\* indexes an empty byte map and the process panics; on one that another
\* goroutine is initialising it reads the tables while they are written (a
\* data race) and either panics or returns a value.
HashRun(t) ==
    /\ ~crashed
    /\ callPc[t] = "hash"
    /\ \/ /\ lxState \in {"ready", "initializing"}
          /\ callPc' = [callPc EXCEPT ![t] = "returned"]
          /\ UNCHANGED crashed
       \/ /\ lxState \in {"uninit", "initializing"}
          /\ callPc' = [callPc EXCEPT ![t] = "panic"]
          /\ crashed' = TRUE
    /\ UNCHANGED <<lxState, onceDone, onceMutex, lxInitRuns, callOp, calls, outsideLX>>

\* The caller takes the result and is free to call again.
CallReturn(t) ==
    /\ ~crashed
    /\ callPc[t] = "returned"
    /\ callPc' = [callPc EXCEPT ![t] = "idle"]
    /\ callOp' = [callOp EXCEPT ![t] = "none"]
    /\ UNCHANGED <<lxState, crashed, onceDone, onceMutex, lxInitRuns, calls, outsideLX>>

LXNext ==
    \E t \in Callers :
        \/ CallInitLX(t)
        \/ \E op \in HashOps : CallHashOp(t, op)
        \/ OnceLoad(t)
        \/ OnceLock(t)
        \/ OnceCheck(t)
        \/ InitBegin(t)
        \/ InitEnd(t)
        \/ OnceStore(t)
        \/ HashRun(t)
        \/ CallReturn(t)

SpecLX == LXInit /\ [][LXNext]_vars

\* C8: LX.Init is entered at most once, whatever number of goroutines call
\* InitLX and however often, and a call of InitLX returns only when that one
\* run has completed: the engine is ready and stays so.
C8_InitRunsOnce ==
    /\ lxInitRuns <= 1
    /\ \A t \in Callers :
          (callOp[t] = "InitLX" /\ callPc[t] = "returned")
              => (lxState = "ready" /\ lxInitRuns = 1 /\ onceDone = 1)

\* Every goroutine has returned from a call of InitLX; one of them went
\* through the slow path behind the one that ran LX.Init.
C8_Witness ==
    /\ \A t \in Callers : callOp[t] = "InitLX" /\ callPc[t] = "returned"
    /\ lxInitRuns = 1
    /\ lxState = "ready"

\* C9: no goroutine reaches LX.Hash while the engine is not initialised:
\* every operation that hashes has initialised it first.
C9_HashOnlyWhenReady ==
    \A t \in Callers : callPc[t] = "hash" => lxState = "ready"

--------------------------------------------------------------------------
(* Validate (opr.go:83-117) and the global OPRChainID (opr.go:67) *)

\* A config is the map of the keys it holds; c.String(key) fails on a key
\* it does not hold.
Protocols == {"PegNet"}

Networks == {"TestNet", "MainNet"}

Configs ==
    {c \in UNION { [K -> Protocols \cup Networks] :
                     K \in SUBSET {"Miner.Protocol", "Miner.Network"} } :
        /\ "Miner.Protocol" \in DOMAIN c => c["Miner.Protocol"] \in Protocols
        /\ "Miner.Network" \in DOMAIN c => c["Miner.Network"] \in Networks}

HasKey(c, key) == key \in DOMAIN c

\* common.OPRChainTag
OPRChainTag == "Oracle Price Records"

\* base58.Encode(common.ComputeChainIDFromStrings([]string{protocol, network,
\* common.OPRChainTag})): a digest of the three strings, kept as the strings.
ChainIDOf(protocol, network) == <<protocol, network, OPRChainTag>>

ChainIDs == {ChainIDOf(p, n) : p \in Protocols, n \in Networks}

\* len(s) of a string s
StrLen(s) == Len(s)

\* common.ConvertPegAddrToRaw: the prefix of an address and whether it decodes.
Addresses == {"tPNT_ok", "PNT_ok", "tPNT_badchecksum"}

ConvertPegAddrToRaw(adr) ==
    CASE adr = "tPNT_ok" -> [pre |-> "tPNT", err |-> FALSE]
      [] adr = "PNT_ok" -> [pre |-> "PNT", err |-> FALSE]
      [] OTHER -> [pre |-> "", err |-> TRUE]

\* common.AllAssets
AllAssets == {"PNT", "USD", "EUR"}

\* OraclePriceRecordAssetList: a map from asset symbols to prices
AssetLists == UNION { [K -> {0, 1}] : K \in SUBSET AllAssets }

\* opr.Assets.Contains(common.AllAssets)
Contains(assets, list) == \A a \in list : a \in DOMAIN assets

\* for k, v := range opr.Assets { if v == 0 && k != "PNT" { return false } }
NoZeroAsset(assets) == \A k \in DOMAIN assets : ~(assets[k] = 0 /\ k # "PNT")

Records ==
    [OPRChainID : ChainIDs \cup {<<>>}, CoinbasePNTAddress : Addresses,
     Assets : AssetLists]

\* Records that pass every check but, possibly, that of the chain identity.
SoundRecords ==
    {r \in Records : /\ r.CoinbasePNTAddress = "tPNT_ok"
                     /\ r.Assets = [a \in AllAssets |-> 1]}

ValidateInit ==
    /\ lxState = "ready"
    /\ crashed = FALSE
    /\ ValIdle
    /\ MineIdle
    /\ EncIdle
    /\ OnceIdle
    /\ TcpIdle
    /\ NewOprIdle

\* A goroutine calls opr.Validate(c).
ValidateCall(v, c, r) ==
    /\ ~crashed
    /\ valPc[v] = "idle"
    /\ valCfg' = [valCfg EXCEPT ![v] = c]
    /\ valRec' = [valRec EXCEPT ![v] = r]
    /\ valPc' = [valPc EXCEPT ![v] = "config"]
    /\ UNCHANGED <<crashed, chainPtr, chainLen, chainWrites, valNew, valResult,
                   outsideVal>>

\* opr.go:85-89
ValidateConfig(v) ==
    /\ ~crashed
    /\ valPc[v] = "config"
    /\ IF ~HasKey(valCfg[v], "Miner.Protocol") \/ ~HasKey(valCfg[v], "Miner.Network")
         THEN /\ valResult' = [valResult EXCEPT ![v] = FALSE]
              /\ valPc' = [valPc EXCEPT ![v] = "returned"]
         ELSE /\ valPc' = [valPc EXCEPT ![v] = "test"]
              /\ UNCHANGED valResult
    /\ UNCHANGED <<crashed, chainPtr, chainLen, chainWrites, valCfg, valRec, valNew,
                   outsideVal>>

\* opr.go:91: if len(OPRChainID) == 0, a read of the length word under no lock
ValidateTest(v) ==
    /\ ~crashed
    /\ valPc[v] = "test"
    /\ valPc' = [valPc EXCEPT ![v] = IF chainLen = 0 THEN "compute" ELSE "compare"]
    /\ UNCHANGED <<crashed, chainPtr, chainLen, chainWrites, valCfg, valRec, valNew,
                   valResult, outsideVal>>

\* opr.go:92, the right-hand side
ValidateCompute(v) ==
    /\ ~crashed
    /\ valPc[v] = "compute"
    /\ valNew' = [valNew EXCEPT ![v] =
                    ChainIDOf(valCfg[v]["Miner.Protocol"], valCfg[v]["Miner.Network"])]
    /\ valPc' = [valPc EXCEPT ![v] = "write"]
    /\ UNCHANGED <<crashed, chainPtr, chainLen, chainWrites, valCfg, valRec,
                   valResult, outsideVal>>

\* opr.go:92, the assignment: two stores, of the data word and of the length
\* word, in the order the compiler chose.
ValidateWrite(v) ==
    /\ ~crashed
    /\ valPc[v] = "write"
    /\ chainWrites' = chainWrites + 1
    /\ \/ /\ chainPtr' = valNew[v]
          /\ valPc' = [valPc EXCEPT ![v] = "write_len"]
          /\ UNCHANGED chainLen
       \/ /\ chainLen' = StrLen(valNew[v])
          /\ valPc' = [valPc EXCEPT ![v] = "write_ptr"]
          /\ UNCHANGED chainPtr
    /\ UNCHANGED <<crashed, valCfg, valRec, valNew, valResult, outsideVal>>

\* opr.go:92, the second store
ValidateWriteRest(v) ==
    /\ ~crashed
    /\ \/ /\ valPc[v] = "write_len"
          /\ chainLen' = StrLen(valNew[v])
          /\ UNCHANGED chainPtr
       \/ /\ valPc[v] = "write_ptr"
          /\ chainPtr' = valNew[v]
          /\ UNCHANGED chainLen
    /\ valPc' = [valPc EXCEPT ![v] = "compare"]
    /\ UNCHANGED <<crashed, chainWrites, valCfg, valRec, valNew, valResult,
                   outsideVal>>

\* opr.go:99-116: the checks of the address and of the assets
LocalChecks(r) ==
    LET a == ConvertPegAddrToRaw(r.CoinbasePNTAddress)
    IN  /\ ~a.err
        /\ a.pre = "tPNT"
        /\ NoZeroAsset(r.Assets)
        /\ Contains(r.Assets, AllAssets)

\* opr.go:95-116. The comparison with the global reads both of its words:
\* strings of different lengths differ, two empty strings are equal, and
\* otherwise the bytes behind the data word are read, which faults when a
\* store of another goroutine has set the length and not yet the data.
ValidateCompare(v) ==
    /\ ~crashed
    /\ valPc[v] = "compare"
    /\ IF StrLen(valRec[v].OPRChainID) = chainLen /\ chainLen > 0 /\ chainPtr = "nil"
         THEN /\ crashed' = TRUE
              /\ valPc' = [valPc EXCEPT ![v] = "panic"]
              /\ UNCHANGED valResult
         ELSE /\ valResult' = [valResult EXCEPT ![v] =
                    /\ StrLen(valRec[v].OPRChainID) = chainLen
                    /\ (chainLen > 0 => valRec[v].OPRChainID = chainPtr)
                    /\ LocalChecks(valRec[v])]
              /\ valPc' = [valPc EXCEPT ![v] = "returned"]
              /\ UNCHANGED crashed
    /\ UNCHANGED <<chainPtr, chainLen, chainWrites, valCfg, valRec, valNew, outsideVal>>

\* The caller takes the result.
ValidateReturn(v) ==
    /\ ~crashed
    /\ valPc[v] = "returned"
    /\ valPc' = [valPc EXCEPT ![v] = "idle"]
    /\ valCfg' = [valCfg EXCEPT ![v] = NoConfig]
    /\ valRec' = [valRec EXCEPT ![v] = NoRecord]
    /\ valNew' = [valNew EXCEPT ![v] = <<>>]
    /\ valResult' = [valResult EXCEPT ![v] = FALSE]
    /\ UNCHANGED <<crashed, chainPtr, chainLen, chainWrites, outsideVal>>

ValidateSteps(v) ==
    \/ ValidateConfig(v)
    \/ ValidateTest(v)
    \/ ValidateCompute(v)
    \/ ValidateWrite(v)
    \/ ValidateWriteRest(v)
    \/ ValidateCompare(v)
    \/ ValidateReturn(v)

\* One goroutine validates any records under any configs, call after call.
ValidateNext ==
    \/ \E c \in Configs, r \in Records : ValidateCall(1, c, r)
    \/ ValidateSteps(1)

SpecValidate == ValidateInit /\ [][ValidateNext]_vars

\* Several goroutines validate sound records of any chain at the same time.
ValidateRaceNext ==
    \E v \in Validators :
        \/ \E c \in Configs, r \in SoundRecords : ValidateCall(v, c, r)
        \/ ValidateSteps(v)

SpecValidateRace == ValidateInit /\ [][ValidateRaceNext]_vars

\* The rules of a valid record, for the config of the call.
RulesHold(c, r) ==
    /\ "Miner.Protocol" \in DOMAIN c
    /\ "Miner.Network" \in DOMAIN c
    /\ r.OPRChainID = ChainIDOf(c["Miner.Protocol"], c["Miner.Network"])
    /\ r.CoinbasePNTAddress = "tPNT_ok"
    /\ \A a \in DOMAIN r.Assets : a # "PNT" => r.Assets[a] # 0
    /\ AllAssets \subseteq DOMAIN r.Assets

\* C5: Validate returns true exactly when every rule holds: both keys are
\* in the config, the record's OPRChainID is the identity derived from them,
\* the address decodes to prefix tPNT, no asset but PNT is zero and every
\* required asset is there.
C5_ValidateIffRules ==
    \A v \in Validators :
        valPc[v] = "returned" => (valResult[v] <=> RulesHold(valCfg[v], valRec[v]))

\* C6: a call accepts a record only when the record's OPRChainID is the
\* identity derived from the protocol and network names of that call's config.
C6_AcceptsOnlyOwnChain ==
    \A v \in Validators :
        (valPc[v] = "returned" /\ valResult[v]) =>
            /\ HasKey(valCfg[v], "Miner.Protocol")
            /\ HasKey(valCfg[v], "Miner.Network")
            /\ valRec[v].OPRChainID =
                 ChainIDOf(valCfg[v]["Miner.Protocol"], valCfg[v]["Miner.Network"])

\* C7: the global OPRChainID is assigned at most once: no two goroutines
\* are past the emptiness test at the same time, and no second assignment
\* is made.
C7_ChainIdentityWrittenOnce ==
    /\ chainWrites <= 1
    /\ Cardinality({v \in Validators :
                      valPc[v] \in {"compute", "write", "write_len", "write_ptr"}}) <= 1

--------------------------------------------------------------------------
(* The TCP server of networkMiner (tcpServer.go): Listen, one TCPClient    *)
(* and one listen goroutine per accept, and the peers.                     *)

\* What a peer can write: a well-formed message, named by its place in the
\* stream, or bytes gob cannot decode.
Message(n) == <<"message", n>>

Garbage == <<"garbage", 0>>

TCPInit ==
    /\ lxState = "uninit"
    /\ crashed = FALSE
    /\ TcpIdle
    /\ NewOprIdle
    /\ MineIdle
    /\ EncIdle
    /\ OnceIdle
    /\ ValIdle

\* tcpServer.go:103-114: net.Listen or tls.Listen; on an error log.Fatal
\* ends the process.
ListenStart ==
    /\ ~crashed
    /\ srvPc = "idle"
    /\ \E ok \in BOOLEAN : srvPc' = IF ok THEN "accepting" ELSE "fatal"
    /\ UNCHANGED <<crashed, accepts, conn, sentLog, wire, peerClosed, loopPc,
                   loopErr, running, events, outsideTCP>>

\* tcpServer.go:116-124, one iteration: Accept returns a connection, or nil
\* and an error that is logged; either way NewTCPClient(conn, s) is built
\* and go client.listen() starts its goroutine.
Accept ==
    /\ ~crashed
    /\ srvPc = "accepting"
    /\ accepts < MaxAccepts
    /\ accepts' = accepts + 1
    /\ \E ok \in BOOLEAN :
         conn' = [conn EXCEPT ![accepts + 1] = IF ok THEN "open" ELSE "nil"]
    /\ loopPc' = [loopPc EXCEPT ![accepts + 1] = "start"]
    /\ UNCHANGED <<crashed, srvPc, sentLog, wire, peerClosed, loopErr, running,
                   events, outsideTCP>>

\* The stream has bytes that do not decode: what follows them is never read.
Spoiled(k) == \E j \in DOMAIN sentLog[k] : sentLog[k][j] = Garbage

\* The peer of an open connection writes its next item.
PeerWrite(k) ==
    /\ ~crashed
    /\ conn[k] = "open"
    /\ ~peerClosed[k]
    /\ ~Spoiled(k)
    /\ Len(sentLog[k]) < MaxMsgs
    /\ \E item \in {Message(Len(sentLog[k]) + 1), Garbage} :
         /\ sentLog' = [sentLog EXCEPT ![k] = Append(@, item)]
         /\ wire' = [wire EXCEPT ![k] = Append(@, item)]
    /\ UNCHANGED <<crashed, srvPc, accepts, conn, peerClosed, loopPc, loopErr,
                   running, events, outsideTCP>>

\* The peer closes its end: after what it wrote, the stream just ends.
PeerClose(k) ==
    /\ ~crashed
    /\ conn[k] = "open"
    /\ ~peerClosed[k]
    /\ ~Spoiled(k)
    /\ peerClosed' = [peerClosed EXCEPT ![k] = TRUE]
    /\ UNCHANGED <<crashed, srvPc, accepts, conn, sentLog, wire, loopPc, loopErr,
                   running, events, outsideTCP>>

\* A read loop that starts decoding without the new-client callback.
ListenNewClientMutSkipsCallback(k) ==
    /\ ~crashed
    /\ loopPc[k] = "start"
    /\ loopPc' = [loopPc EXCEPT ![k] = "decode"]
    /\ UNCHANGED <<crashed, srvPc, accepts, conn, sentLog, wire, peerClosed,
                   loopErr, running, events, outsideTCP>>

\* tcpServer.go:50: c.Server.onNewClientCallback(c)
ListenNewClient(k) ==
    /\ ~crashed
    /\ loopPc[k] = "start"
    /\ events' = [events EXCEPT ![k] = Append(@, <<"new", 0>>)]
    /\ loopPc' = [loopPc EXCEPT ![k] = "decode"]
    /\ UNCHANGED <<crashed, srvPc, accepts, conn, sentLog, wire, peerClosed,
                   loopErr, running, outsideTCP>>

\* A read loop that hands each message to a goroutine of its own.
ListenDecodeMutAsync(k) ==
    /\ ~crashed
    /\ loopPc[k] = "decode"
    /\ conn[k] = "open"
    /\ wire[k] # <<>>
    /\ Head(wire[k]) # Garbage
    /\ wire' = [wire EXCEPT ![k] = Tail(@)]
    /\ running' = [running EXCEPT ![k] = @ + 1]
    /\ events' = [events EXCEPT ![k] = Append(@, Head(wire[k]))]
    /\ UNCHANGED <<crashed, srvPc, accepts, conn, sentLog, peerClosed, loopPc,
                   loopErr, outsideTCP>>

\* tcpServer.go:52-59: err := c.decoder.Decode(&m). On a nil conn the read
\* dereferences nil and the process panics. Otherwise Decode blocks until
\* the stream has something: a message (the callback onNewMessage is
\* entered), undecodable bytes (a decode error), or its end (io.EOF).
ListenDecode(k) ==
    /\ ~crashed
    /\ loopPc[k] = "decode"
    /\ \/ /\ conn[k] = "nil"
          /\ crashed' = TRUE
          /\ loopPc' = [loopPc EXCEPT ![k] = "panic"]
          /\ UNCHANGED <<wire, loopErr, running, events>>
       \/ /\ conn[k] = "open"
          /\ wire[k] # <<>>
          /\ Head(wire[k]) # Garbage
          /\ wire' = [wire EXCEPT ![k] = Tail(@)]
          /\ loopErr' = [loopErr EXCEPT ![k] = "nil"]
          /\ running' = [running EXCEPT ![k] = @ + 1]
          /\ events' = [events EXCEPT ![k] = Append(@, Head(wire[k]))]
          /\ loopPc' = [loopPc EXCEPT ![k] = "message"]
          /\ UNCHANGED crashed
       \/ /\ conn[k] = "open"
          /\ wire[k] # <<>>
          /\ Head(wire[k]) = Garbage
          /\ loopErr' = [loopErr EXCEPT ![k] = "decode"]
          /\ loopPc' = [loopPc EXCEPT ![k] = "close"]
          /\ UNCHANGED <<crashed, wire, running, events>>
       \/ /\ conn[k] = "open"
          /\ wire[k] = <<>>
          /\ peerClosed[k]
          /\ loopErr' = [loopErr EXCEPT ![k] = "EOF"]
          /\ loopPc' = [loopPc EXCEPT ![k] = "close"]
          /\ UNCHANGED <<crashed, wire, running, events>>
    /\ UNCHANGED <<srvPc, accepts, conn, sentLog, peerClosed, outsideTCP>>

\* tcpServer.go:59-60: the callback onNewMessage returns, the loop goes round.
ListenMessageReturn(k) ==
    /\ ~crashed
    /\ loopPc[k] = "message"
    /\ running' = [running EXCEPT ![k] = @ - 1]
    /\ loopPc' = [loopPc EXCEPT ![k] = "decode"]
    /\ UNCHANGED <<crashed, srvPc, accepts, conn, sentLog, wire, peerClosed,
                   loopErr, events, outsideTCP>>

\* tcpServer.go:55: c.conn.Close()
ListenClose(k) ==
    /\ ~crashed
    /\ loopPc[k] = "close"
    /\ conn' = [conn EXCEPT ![k] = "closed"]
    /\ events' = [events EXCEPT ![k] = Append(@, <<"close", 0>>)]
    /\ loopPc' = [loopPc EXCEPT ![k] = "callback"]
    /\ UNCHANGED <<crashed, srvPc, accepts, sentLog, wire, peerClosed, loopErr,
                   running, outsideTCP>>

\* A read loop that hands the connection-closed callback no error.
ListenClosedMutNilError(k) ==
    /\ ~crashed
    /\ loopPc[k] = "callback"
    /\ events' = [events EXCEPT ![k] = Append(@, <<"closed", "nil">>)]
    /\ loopPc' = [loopPc EXCEPT ![k] = "done"]
    /\ UNCHANGED <<crashed, srvPc, accepts, conn, sentLog, wire, peerClosed,
                   loopErr, running, outsideTCP>>

\* tcpServer.go:56-57: c.Server.onClientConnectionClosed(c, err); return
ListenClosed(k) ==
    /\ ~crashed
    /\ loopPc[k] = "callback"
    /\ events' = [events EXCEPT ![k] = Append(@, <<"closed", loopErr[k]>>)]
    /\ loopPc' = [loopPc EXCEPT ![k] = "done"]
    /\ UNCHANGED <<crashed, srvPc, accepts, conn, sentLog, wire, peerClosed,
                   loopErr, running, outsideTCP>>

TCPNext ==
    \/ ListenStart
    \/ Accept
    \/ \E k \in Clients : PeerWrite(k)
    \/ \E k \in Clients : PeerClose(k)
    \/ \E k \in Clients : ListenNewClient(k)
    \/ \E k \in Clients : ListenDecode(k)
    \/ \E k \in Clients : ListenMessageReturn(k)
    \/ \E k \in Clients : ListenClose(k)
    \/ \E k \in Clients : ListenClosed(k)

SpecTCP == TCPInit /\ [][TCPNext]_vars

--------------------------------------------------------------------------
(* Claims about the TCP server *)

\* The places in a client's event log of its connection-closed callbacks.
ClosedAt(k) == {j \in DOMAIN events[k] : events[k][j][1] = "closed"}

\* The messages handed to the client's message-received callback, in order.
Delivered(k) == SelectSeq(events[k], LAMBDA e : e[1] = "message")

\* The peer wrote only well-formed messages, all were read, and it closed.
CleanEnd(k) == peerClosed[k] /\ wire[k] = <<>>

\* C12: on a connection whose read loop got an error from Decode, the
\* connection-closed callback is invoked once and no more, once the loop
\* has ended exactly once, with a non-nil error; the socket was closed just
\* before it; it is the last event of the connection and no
\* message-received callback runs or starts after the failure.
C12_DecodeFailureClosesOnce ==
    \A k \in Clients :
      /\ Cardinality(ClosedAt(k)) <= 1
      /\ loopErr[k] # "nil" =>
           /\ running[k] = 0
           /\ loopPc[k] \in {"close", "callback", "done"}
           /\ loopPc[k] = "done" <=> Cardinality(ClosedAt(k)) = 1
           /\ \A j \in ClosedAt(k) :
                /\ events[k][j][2] # "nil"
                /\ j = Len(events[k])
                /\ j > 1
                /\ events[k][j - 1] = <<"close", 0>>
                /\ conn[k] = "closed"

\* A peer sent one message and then bytes that do not decode: the message
\* was delivered, the socket closed, the callback given the decode error.
C12_Witness ==
    \E k \in Clients :
      /\ loopPc[k] = "done"
      /\ events[k] = <<<<"new", 0>>, Message(1), <<"close", 0>>,
                       <<"closed", "decode">>>>
      /\ wire[k] = <<Garbage>>

\* C13: on each connection the message-received callbacks are invoked in
\* the order the messages were written, at most one of them runs at a time
\* and the next Decode starts only when none runs; and while the process
\* runs, a loop that stands at Decode with something to read can take its
\* step whatever the other connections' callbacks are doing.
C13_PerConnectionOrderNoOverlap ==
    \A k \in Clients :
      /\ Delivered(k) = SubSeq(sentLog[k], 1, Len(Delivered(k)))
      /\ running[k] <= 1
      /\ loopPc[k] = "decode" => running[k] = 0
      /\ (~crashed /\ loopPc[k] = "decode" /\ conn[k] = "open" /\ wire[k] # <<>>)
           => ENABLED ListenDecode(k)

\* The first connection's callback for its first message has not returned,
\* its second message waits; the second connection, accepted later, has
\* had both of its messages delivered meanwhile.
C13_Witness ==
    /\ loopPc[1] = "message"
    /\ Delivered(1) = <<Message(1)>>
    /\ wire[1] = <<Message(2)>>
    /\ Delivered(2) = <<Message(1), Message(2)>>
    /\ loopPc[2] = "decode"

\* C14: the connection-closed callback gets a nil error exactly when the
\* peer closed cleanly: nil when the stream just ended, non-nil only when
\* bytes failed to decode.
C14_CleanCloseGivesNilError ==
    \A k \in Clients :
      \A j \in ClosedAt(k) : (events[k][j][2] = "nil") <=> CleanEnd(k)

\* The places in a client's event log of its new-client callbacks.
NewAt(k) == {j \in DOMAIN events[k] : events[k][j][1] = "new"}

\* C21: on every connection the new-client callback is the first event and
\* is invoked once and no more, exactly once as soon as the read loop has
\* passed its first statement, so before every message-received callback
\* and before the connection-closed callback; the connection-closed
\* callback is invoked at most once and nothing follows it.
C21_EventOrderPerConnection ==
    \A k \in Clients :
      /\ NewAt(k) \subseteq {1}
      /\ events[k] # <<>> => NewAt(k) = {1}
      /\ (conn[k] \in {"open", "closed"} /\ loopPc[k] \notin {"none", "start"})
           => NewAt(k) = {1}
      /\ \A j \in DOMAIN events[k] :
           events[k][j][1] \in {"message", "close", "closed"} => j > 1
      /\ ClosedAt(k) \subseteq {Len(events[k])}
      /\ ClosedAt(k) # {} => loopPc[k] = "done"

\* A peer sent two messages and closed: new client, both messages, the
\* socket close and the connection-closed callback, in that order.
C21_Witness ==
    \E k \in Clients :
      events[k] = <<<<"new", 0>>, Message(1), Message(2), <<"close", 0>>,
                    <<"closed", "EOF">>>>

\* C18: a read loop, and a client, exists exactly for the accepts that gave
\* a connection, and a failed accept leaves the server running.
C18_LoopOnlyForAcceptedConnection ==
    /\ \A k \in Clients : loopPc[k] # "none" <=> conn[k] \in {"open", "closed"}
    /\ ~crashed

--------------------------------------------------------------------------
(* NewOpr (opr.go:271-349): one call, and the sender on the alert channel *)

NewOprKeys == {"Miner.ECAddress", "Miner.IdentityChain", "Miner.Protocol",
               "Miner.Network", "Miner.CoinbasePNTAddress"}

\* The configs NewOpr is called with: any of its keys may be absent.
NewOprConfigs ==
    {c \in UNION { [K -> Protocols \cup Networks \cup {"set"}] : K \in SUBSET NewOprKeys } :
        \A key \in DOMAIN c :
          c[key] \in (IF key = "Miner.Network" THEN Networks
                      ELSE IF key = "Miner.Protocol" THEN Protocols
                      ELSE {"set"})}

\* hex.EncodeToString
HexDigits == <<"0", "1", "2", "3", "4", "5", "6", "7",
               "8", "9", "a", "b", "c", "d", "e", "f">>

RECURSIVE HexEncode(_)
HexEncode(b) ==
    IF b = <<>> THEN <<>>
    ELSE <<HexDigits[(Head(b) \div 16) + 1], HexDigits[(Head(b) % 16) + 1]>>
           \o HexEncode(Tail(b))

\* w.Entry.Hash() of the k-th winner
EntryHash(k) ==
    <<16 * k + 1, 255 - k, k, 0, 171, 205, 239, 18>> \o Fill(HashBytes - 8, k)

\* winners.ToBePaid with n winners
ToBePaid(n) == [k \in 1..n |-> EntryHash(k)]

\* opr.go:320: the coinbase address comes from the config
UsesCoinbaseKey(c, m) == ~(c["Miner.Network"] = "TestNet" /\ m # 0)

\* opr.go:281-340: the error NewOpr returns before it reaches the alert
\* channel, or "nil" when it gets that far.
ConfigError(c, m, env) ==
    IF ~HasKey(c, "Miner.ECAddress") THEN "no Miner.ECAddress"
    ELSE IF ~env.fetch THEN "FetchECAddress failed"
    ELSE IF ~HasKey(c, "Miner.IdentityChain")
      THEN "config file has no Miner.IdentityChain specified"
    ELSE IF ~HasKey(c, "Miner.Protocol")
      THEN "config file has no Miner.Protocol specified"
    ELSE IF ~HasKey(c, "Miner.Network")
      THEN "config file has no Miner.Network specified"
    ELSE IF ~UsesCoinbaseKey(c, m)
      THEN (IF env.debugAddr THEN "nil" ELSE "debug address conversion failed")
    ELSE IF ~HasKey(c, "Miner.CoinbasePNTAddress")
      THEN "config file has no Coinbase PNT Address"
    ELSE "nil"

NewOprInit ==
    /\ lxState \in {"uninit", "ready"}
    /\ crashed = FALSE
    /\ newOprPc = "idle"
    /\ newOprCfg \in NewOprConfigs
    /\ minerNumber \in {0, 1}
    /\ newOprEnv \in [fetch : BOOLEAN, debugAddr : BOOLEAN]
    /\ alert = <<>>
    /\ winners = <<>>
    /\ WinPreviousOPR = [k \in 1..WinnerSlots |-> <<>>]
    /\ newOprResult = NoResult
    /\ newOprRecord = NoBody
    /\ newOprDone = {}
    /\ MineIdle
    /\ EncIdle
    /\ OnceIdle
    /\ ValIdle
    /\ TcpIdle

\* The grader offers the winners of the previous block on alert.
AlertSend ==
    /\ ~crashed
    /\ alert = <<>>
    /\ "receive" \notin newOprDone
    /\ \E n \in 0..MaxWinners : alert' = <<ToBePaid(n)>>
    /\ UNCHANGED <<lxState, crashed, newOprPc, newOprCfg, minerNumber, newOprEnv,
                   winners, WinPreviousOPR, newOprResult, newOprRecord,
                   newOprDone, outsideNewOpr>>

\* A NewOpr that takes an absent coinbase key as the empty address.
NewOprConfigMutEmptyCoinbase ==
    /\ ~crashed
    /\ newOprPc = "idle"
    /\ LET err == ConfigError(newOprCfg, minerNumber, newOprEnv)
       IN  /\ newOprDone' = IF HasKey(newOprCfg, "Miner.ECAddress")
                              THEN {"fetch"} ELSE {}
           /\ IF err = "nil" \/ err = "config file has no Coinbase PNT Address"
                THEN /\ newOprPc' = "receive"
                     /\ UNCHANGED newOprResult
                ELSE /\ newOprPc' = "error"
                     /\ newOprResult' = [opr |-> "nil", err |-> err]
    /\ UNCHANGED <<lxState, crashed, newOprCfg, minerNumber, newOprEnv, alert,
                   winners, WinPreviousOPR, newOprRecord, outsideNewOpr>>

\* opr.go:272-340: the config is read key by key; the first absent key, or
\* failed lookup, makes NewOpr return nil and the error.
NewOprConfig ==
    /\ ~crashed
    /\ newOprPc = "idle"
    /\ LET err == ConfigError(newOprCfg, minerNumber, newOprEnv)
       IN  /\ newOprDone' = IF HasKey(newOprCfg, "Miner.ECAddress")
                              THEN {"fetch"} ELSE {}
           /\ IF err = "nil"
                THEN /\ newOprPc' = "receive"
                     /\ newOprRecord' =
                          [NoBody EXCEPT
                             !.OPRChainID = ChainIDOf(newOprCfg["Miner.Protocol"],
                                                      newOprCfg["Miner.Network"]),
                             !.Dbht = 7,
                             !.FactomDigitalID =
                                 IF minerNumber > 0 THEN <<"set", "miner001">>
                                                    ELSE <<"set">>,
                             !.CoinbasePNTAddress =
                                 IF UsesCoinbaseKey(newOprCfg, minerNumber)
                                   THEN newOprCfg["Miner.CoinbasePNTAddress"]
                                   ELSE "tPNT_debug"]
                     /\ UNCHANGED newOprResult
                ELSE /\ newOprPc' = "error"
                     /\ newOprResult' = [opr |-> "nil", err |-> err]
                     /\ UNCHANGED newOprRecord
    /\ UNCHANGED <<lxState, crashed, newOprCfg, minerNumber, newOprEnv, alert,
                   winners, WinPreviousOPR, outsideNewOpr>>

\* opr.go:341-344: winners := <-alert, then slot i of the array of ten gets
\* the hex of the first 8 bytes of winner i's entry hash. An index past the
\* array's end panics.
NewOprReceive ==
    /\ ~crashed
    /\ newOprPc = "receive"
    /\ alert # <<>>
    /\ winners' = Head(alert)
    /\ alert' = Tail(alert)
    /\ newOprDone' = newOprDone \cup {"receive"}
    /\ WinPreviousOPR' =
         [k \in 1..WinnerSlots |->
            IF k <= Len(winners') THEN HexEncode(SubSeq(winners'[k], 1, 8))
                                  ELSE WinPreviousOPR[k]]
    /\ IF Len(winners') > WinnerSlots
         THEN /\ newOprPc' = "panic"
              /\ crashed' = TRUE
         ELSE /\ newOprPc' = "record"
              /\ UNCHANGED crashed
    /\ UNCHANGED <<lxState, newOprCfg, minerNumber, newOprEnv, newOprResult,
                   newOprRecord, outsideNewOpr>>

\* opr.go:346-348 and 352-367: GetOPRecord polls the prices, marshals the
\* record and hashes it with LX, which panics when LX is not initialised.
NewOprGetOPRecord ==
    /\ ~crashed
    /\ newOprPc = "record"
    /\ IF lxState = "ready"
         THEN /\ newOprDone' = newOprDone \cup {"poll", "hash"}
              /\ newOprRecord' = [newOprRecord EXCEPT
                                    !.WinPreviousOPR = WinPreviousOPR,
                                    !.Assets = <<"PNT", "USD">>,
                                    !.Content = <<123, 125>>]
              /\ newOprResult' = [opr |-> "record", err |-> "nil"]
              /\ newOprPc' = "returned"
              /\ UNCHANGED crashed
         ELSE /\ newOprDone' = newOprDone \cup {"poll"}
              /\ newOprPc' = "panic"
              /\ crashed' = TRUE
              /\ UNCHANGED <<newOprRecord, newOprResult>>
    /\ UNCHANGED <<lxState, newOprCfg, minerNumber, newOprEnv, alert, winners,
                   WinPreviousOPR, outsideNewOpr>>

NewOprNext ==
    \/ AlertSend
    \/ NewOprConfig
    \/ NewOprReceive
    \/ NewOprGetOPRecord

SpecNewOpr == NewOprInit /\ [][NewOprNext]_vars

--------------------------------------------------------------------------
(* Claims about NewOpr *)

\* The value of a hex digit, and the bytes a hex string stands for.
HexDigitValue(ch) == CHOOSE v \in 0..15 : HexDigits[v + 1] = ch

RECURSIVE HexDecode(_)
HexDecode(str) ==
    IF Len(str) < 2 THEN <<>>
    ELSE <<16 * HexDigitValue(str[1]) + HexDigitValue(str[2])>>
           \o HexDecode(SubSeq(str, 3, Len(str)))

\* C15: with the hash engine initialised, NewOpr never fails whatever the
\* number of winners it receives, and once it has received them the record
\* has ten previous-winner slots: slot i is the 16 hex digits of the first 8
\* bytes of the i-th winner's entry hash, the slots past the last winner are
\* empty.
C15_TenWinnerSlotsForAnyCount ==
    lxState = "ready" =>
      /\ newOprPc # "panic"
      /\ newOprPc \in {"record", "returned"} =>
           /\ DOMAIN WinPreviousOPR = 1..WinnerSlots
           /\ \A k \in 1..WinnerSlots :
                IF k <= Len(winners)
                  THEN /\ Len(WinPreviousOPR[k]) = 16
                       /\ HexDecode(WinPreviousOPR[k]) = SubSeq(winners[k], 1, 8)
                  ELSE WinPreviousOPR[k] = <<>>
      /\ newOprPc = "returned" => newOprRecord.WinPreviousOPR = WinPreviousOPR

\* One of the keys NewOpr needs is absent from its config.
ConfigIncomplete ==
    \/ \E key \in {"Miner.ECAddress", "Miner.IdentityChain", "Miner.Protocol",
                   "Miner.Network"} : ~HasKey(newOprCfg, key)
    \/ /\ HasKey(newOprCfg, "Miner.Network")
       /\ UsesCoinbaseKey(newOprCfg, minerNumber)
       /\ ~HasKey(newOprCfg, "Miner.CoinbasePNTAddress")

\* C17: a call of NewOpr whose config lacks Miner.ECAddress,
\* Miner.IdentityChain, Miner.Protocol, Miner.Network or, when it is used,
\* Miner.CoinbasePNTAddress has returned nil and a non-nil error, has not
\* polled prices or hashed, and has received nothing from alert.
C17_ConfigErrorReported ==
    (newOprPc # "idle" /\ ConfigIncomplete) =>
      /\ newOprPc = "error"
      /\ newOprResult.opr = "nil"
      /\ newOprResult.err \notin {"nil", "none"}
      /\ newOprDone \cap {"receive", "poll", "hash"} = {}
      /\ winners = <<>>

\* Only the coinbase key is absent and it is used; winners are on offer on
\* alert, and NewOpr has returned its error without taking them.
C17_Witness ==
    /\ newOprPc = "error"
    /\ DOMAIN newOprCfg = NewOprKeys \ {"Miner.CoinbasePNTAddress"}
    /\ minerNumber = 0
    /\ newOprEnv.fetch
    /\ alert = <<ToBePaid(3)>>
    /\ newOprResult = [opr |-> "nil", err |-> "config file has no Coinbase PNT Address"]

=============================================================================
